---- MODULE Spec2Model ----
(***************************************************************************)
(* The chain watcher and transaction reconciler of the token-wallets       *)
(* backend (class Web3Event).  The watcher mirrors the transfers that      *)
(* touch monitored wallets into a local Transaction store.  It is driven   *)
(* by new-block-header notifications (processNewBlockHeaders) and by a     *)
(* timer-driven sweep over a block range (checkTransactions); both funnel  *)
(* into processTransactionsInBlock and processTransaction.                 *)
(*                                                                         *)
(* JavaScript strings that the code converts (wei amounts, decimal         *)
(* amounts) are sequences of characters; call data is a selector followed  *)
(* by 32-byte words.  Amount units are scaled down (one decimal digit in   *)
(* place of eighteen) so that the conversions stay executable.             *)
(***************************************************************************)
EXTENDS Integers, Sequences, FiniteSets, TLC

VARIABLES
  head,               \* what web3.eth.getBlockNumber() answers now
  receipts,           \* hash -> what web3.eth.getTransactionReceipt answers now
  store,              \* the Transaction collection: the persisted records
  lastCheckingBlock,  \* Web3Event.lastCheckingBlock
  sweep,              \* the checkTransactions call in flight, if any
  tasks,              \* block callbacks in flight (sweep items, live notifications, passes)
  chain,              \* block number -> transaction hashes of that block
  startBlock,         \* config.web3.startBlock
  budget,             \* what is left of the bounded environment events
  lastSave,           \* history: the arguments and context of the latest txRep.save
  firstPass,          \* history: the store as the first of two passes over a block left it
  conn                \* config.web3.type, the provider of this.web3, its handlers and timers

vars == <<head, receipts, store, lastCheckingBlock, sweep, tasks, chain,
          startBlock, budget, lastSave, firstPass, conn>>

----------------------------------------------------------------------------
\* Bounds of the model.

\* The longest list of logs a receipt carries.
MaxLogs == 2
\* How many sweeps the timer starts.
MaxSweeps == 2
\* How many new-block-header notifications arrive.
MaxLive == 1
\* How many calls to a collaborator (chain client, stores) fail.
MaxFailures == 1
\* How many times the chain head changes.
MaxHeadMoves == 1
\* How far above the cursor margin the chain head gets.
HeadSpan == 1
MaxCloses == 3

----------------------------------------------------------------------------
\* Program constants.

CONCURRENT_BLOCK_PROCESS_COUNT == 3
CONCURRENT_TRANSACTIONS_PROCESS_COUNT == 4
\* checkTransactions: "- 4" when the cursor is initialised
InitMargin == 4
\* checkTransactions: "currentBlock - 10" when the cursor is advanced
AdvanceMargin == 10
\* Web3Utils.fromWei(value): wei per ether, scaled from 10^18
WeiPerEther == 10
\* Web3Utils.fromWei(gasPrice, 'gwei'): wei per gwei, scaled from 10^9
WeiPerGwei == 10

TRANSACTION_STATUS_PENDING == "pending"
TRANSACTION_STATUS_CONFIRMED == "confirmed"
TRANSACTION_STATUS_FAILED == "failed"
ETHEREUM_TRANSFER == "eth_transfer"
ERC20_TRANSFER == "erc20_transfer"

\* erc20Abi.transfer.methodSignature and erc20Abi.transferFrom.methodSignature
TransferSignature == "sig:transfer(address,uint256)"
TransferFromSignature == "sig:transferFrom(address,uint256,uint256)"

Undefined == "undefined"
UndefinedStr == <<"undefined">>
UndefinedNum == 0 - 1
NullAddr == "null"

TerminalStatuses == {TRANSACTION_STATUS_CONFIRMED, TRANSACTION_STATUS_FAILED}

----------------------------------------------------------------------------
\* Strings and numbers.

Digit == <<"0", "1", "2", "3", "4", "5", "6", "7", "8", "9">>

\* Number.prototype.toString / BN.toString(10)
RECURSIVE ToDecimal(_)
ToDecimal(n) ==
  IF n < 10 THEN <<Digit[n + 1]>>
  ELSE ToDecimal(n \div 10) \o <<Digit[(n % 10) + 1]>>

DigitValue(c) == CHOOSE d \in 0..9 : Digit[d + 1] = c

RECURSIVE ParseDecimal(_)
ParseDecimal(s) ==
  IF Len(s) = 0 THEN 0
  ELSE ParseDecimal(SubSeq(s, 1, Len(s) - 1)) * 10 + DigitValue(s[Len(s)])

\* Web3Utils.fromWei: the decimal string of wei / unit, the fraction kept
\* only when it is not zero.
FromWei(s, unit) ==
  LET n == ParseDecimal(s)
      whole == n \div unit
      frac == n % unit
  IN IF frac = 0 THEN ToDecimal(whole)
     ELSE ToDecimal(whole) \o <<".">> \o ToDecimal(frac)

\* JavaScript truthiness of a string: every string but the empty one.
JsTruthyString(s) == Len(s) > 0

----------------------------------------------------------------------------
\* Addresses and call data.

\* The addresses of the model: the zero address, two wallets of registered
\* users, two foreign accounts and a token contract.
AddrName == <<"0x0", "W1", "W2", "X1", "X2", "T1">>
AddrSpace == Len(AddrName)

\* The wallets the user repository knows.
MonitoredWallets == {"W1", "W2"}

\* A 32-byte word holding address a, with junk in the 12 high bytes when
\* dirty.
AddrWord(a, dirty) ==
  (CHOOSE i \in 1..AddrSpace : AddrName[i] = a) - 1 + (IF dirty THEN AddrSpace ELSE 0)

\* Web3Abi.decodeParameters for an address: the low 20 bytes of the word.
DecodeAddress(w) == AddrName[(w % AddrSpace) + 1]

\* Web3Abi.decodeParameters for a uint256: its decimal string.
DecodeUint(w) == ToDecimal(w)

\* t.input: '0x' followed by an 8-digit selector and 64-digit words.
EmptyInput == [sel |-> "", words |-> <<>>]
CallData(sel, words) == [sel |-> sel, words |-> words]

\* t.input.length
InputLength(input) ==
  IF input.sel = "" THEN 2 ELSE 2 + 8 + 64 * Len(input.words)

\* t.input.slice(2, 10)
MethodSignatureOf(input) == input.sel

\* t.input === '0x'
IsEmptyInput(input) == input.sel = "" /\ input.words = <<>>

----------------------------------------------------------------------------
\* The transactions the chain can hold (what getBlock(i, true) returns in
\* block.transactions), keyed by hash.

Hashes == {"hN", "hO", "hZ", "hU", "hE", "hS", "hUE", "hK", "hL", "hF", "hT3", "hC"}

RawBase(h, from, to, value, input) ==
  [hash |-> h, from |-> from, to |-> to, value |-> ToDecimal(value),
   input |-> input, gas |-> 21, gasPrice |-> ToDecimal(20)]

RawTx(h) ==
  CASE h = "hN"  -> RawBase(h, "X1", "W1", 25, EmptyInput)
    [] h = "hO"  -> RawBase(h, "W2", "X1", 10, EmptyInput)
    [] h = "hZ"  -> RawBase(h, "W1", "X1", 0, EmptyInput)
    [] h = "hU"  -> RawBase(h, "X1", "X2", 30, EmptyInput)
    [] h = "hE"  -> RawBase(h, "X1", "T1", 0,
                     CallData(TransferSignature, <<AddrWord("W2", TRUE), 7>>))
    [] h = "hS"  -> RawBase(h, "W1", "T1", 0,
                     CallData(TransferSignature, <<AddrWord("X2", TRUE), 5>>))
    [] h = "hUE" -> RawBase(h, "X1", "T1", 3,
                     CallData(TransferSignature, <<AddrWord("X2", FALSE), 4>>))
    [] h = "hK"  -> RawBase(h, "W1", "T1", 0, CallData("sig:other", <<1>>))
    [] h = "hL"  -> RawBase(h, "W1", "T1", 8,
                     CallData(TransferSignature, <<AddrWord("W2", FALSE)>>))
    [] h = "hF"  -> RawBase(h, "W1", "T1", 0,
                     CallData(TransferFromSignature,
                              <<AddrWord("X1", FALSE), AddrWord("W2", FALSE), 3>>))
    [] h = "hT3" -> RawBase(h, "X1", "T1", 0,
                     CallData(TransferSignature,
                              <<AddrWord("W1", FALSE), AddrWord("X2", TRUE), 6>>))
    [] h = "hC"  -> RawBase(h, "W2", NullAddr, 0, CallData("sig:other", <<>>))

----------------------------------------------------------------------------
\* Receipts and logs (what getTransactionReceipt returns).

\* A log that is a Transfer event, a log whose decoding leaves _to empty,
\* and a log that does not decode at all.
LogKinds == {"Transfer", "NoRecipient", "Undecodable"}

\* Web3Abi.decodeLog(erc20Abi.Events.Transfer.abi.inputs, log.data, log.topics)
decodeLog(log) ==
  CASE log = "Transfer"    -> [decoded |-> TRUE, _from |-> <<"X", "1">>, _to |-> <<"W", "2">>]
    [] log = "NoRecipient" -> [decoded |-> TRUE, _from |-> <<"X", "1">>, _to |-> <<>>]
    [] OTHER               -> [decoded |-> FALSE, _from |-> <<>>, _to |-> <<>>]

RECURSIVE SeqsUpTo(_, _)
SeqsUpTo(S, n) ==
  IF n = 0 THEN {<<>>}
  ELSE LET shorter == SeqsUpTo(S, n - 1)
       IN shorter \cup {Append(q, x) : q \in shorter, x \in S}

\* getTransactionReceipt answered null
NoReceipt == [status |-> "none", logs |-> <<>>]

Receipts == [status : {"0x1", "0x0"}, logs : SeqsUpTo(LogKinds, MaxLogs)]

\* getTxStatusByReceipt taking every receipt for a success.
getTxStatusByReceipt_AnyReceiptConfirms(receipt) ==
  IF receipt = NoReceipt THEN TRANSACTION_STATUS_PENDING
  ELSE TRANSACTION_STATUS_CONFIRMED

\* getTxStatusByReceipt
getTxStatusByReceipt(receipt) ==
  IF receipt = NoReceipt THEN TRANSACTION_STATUS_PENDING
  ELSE IF receipt.status = "0x1" THEN TRANSACTION_STATUS_CONFIRMED
  ELSE TRANSACTION_STATUS_FAILED

\* processTransaction: "if (decodedLogs && decodedLogs._from && decodedLogs._to)"
LogConfirmsTransfer(log) ==
  LET decodedLogs == decodeLog(log)
  IN decodedLogs.decoded /\ JsTruthyString(decodedLogs._from)
       /\ JsTruthyString(decodedLogs._to)

\* The check of the erc20 Transfer event decided by the last log alone.
Erc20StatusByLogs_LastLogDecides(logs) ==
  IF Len(logs) = 0 THEN TRANSACTION_STATUS_FAILED
  ELSE IF LogConfirmsTransfer(logs[Len(logs)])
       THEN TRANSACTION_STATUS_CONFIRMED
       ELSE TRANSACTION_STATUS_FAILED

\* processTransaction: the check of the erc20 Transfer event
Erc20StatusByLogs(logs) ==
  IF Len(logs) = 0 THEN TRANSACTION_STATUS_FAILED
  ELSE IF \E i \in 1..Len(logs) : LogConfirmsTransfer(logs[i])
       THEN TRANSACTION_STATUS_CONFIRMED
       ELSE TRANSACTION_STATUS_FAILED

\* processTransaction: tx.status as it is when the record is saved
ResolveStatus(tx, receipt) ==
  LET byReceipt == getTxStatusByReceipt(receipt)
  IN IF byReceipt # TRANSACTION_STATUS_FAILED /\ tx.type = ERC20_TRANSFER
     THEN Erc20StatusByLogs(receipt.logs)
     ELSE byReceipt

----------------------------------------------------------------------------
\* Blocks.

BlockTimestamp(n) == 1000 + n

\* web3.eth.getBlock(n, true) for a block the node has
BlockData(n, hashes) ==
  [number |-> n, timestamp |-> BlockTimestamp(n), transactions |-> hashes]

\* The extension that notes the contract and leaves the transaction as it
\* came.
ExtendTransaction_KeepsRawFields(t) ==
  [hash |-> t.hash, from |-> t.from, to |-> t.to, value |-> t.value,
   input |-> t.input, gas |-> t.gas, gasPrice |-> t.gasPrice,
   contractAddress |->
     IF MethodSignatureOf(t.input) = TransferSignature THEN t.to ELSE Undefined]

\* processTransactionsInBlock: a transaction of the block extended by the
\* decoding of its erc20 call.  The second branch tests the transfer
\* signature again, as the code does.
ExtendTransaction(t) ==
  IF InputLength(t.input) = 2 + 8 + 64 + 64
       /\ MethodSignatureOf(t.input) = TransferSignature
  THEN [hash |-> t.hash, from |-> t.from,
        to |-> DecodeAddress(t.input.words[1]),
        value |-> DecodeUint(t.input.words[2]),
        input |-> t.input, gas |-> t.gas, gasPrice |-> t.gasPrice,
        contractAddress |-> t.to]
  ELSE IF InputLength(t.input) = 2 + 8 + 64 + 64 + 64
            /\ MethodSignatureOf(t.input) = TransferSignature
  THEN [hash |-> t.hash, from |-> DecodeAddress(t.input.words[1]),
        to |-> DecodeAddress(t.input.words[2]),
        value |-> DecodeUint(t.input.words[3]),
        input |-> t.input, gas |-> t.gas, gasPrice |-> t.gasPrice,
        contractAddress |-> t.to]
  ELSE [hash |-> t.hash, from |-> t.from, to |-> t.to, value |-> t.value,
        input |-> t.input, gas |-> t.gas, gasPrice |-> t.gasPrice,
        contractAddress |-> Undefined]

\* The extended transaction of hash h.
EthTx(h) == ExtendTransaction(RawTx(h))

\* getWalletMapInTransactions: the keys of the wallets map, the addresses of
\* the transactions that belong to a wallet of a user.
getWalletMapInTransactions(hashes) ==
  LET txMaps == ({EthTx(hashes[i]).from : i \in 1..Len(hashes)}
                   \cup {EthTx(hashes[i]).to : i \in 1..Len(hashes)})
                   \ {NullAddr}
  IN {a \in txMaps : a \in MonitoredWallets}

\* filterTransactionByWalletAddresses
InWalletsMap(walletsMap, h) ==
  EthTx(h).from \in walletsMap \/ EthTx(h).to \in walletsMap

\* A filter that lets every transaction of the block through.
filterTransactionByWalletAddresses_KeepsAll(walletsMap, hashes) == hashes

filterTransactionByWalletAddresses(walletsMap, hashes) ==
  SelectSeq(hashes, LAMBDA h : InWalletsMap(walletsMap, h))

----------------------------------------------------------------------------
\* Transaction records.

\* Transaction.createTransaction({transactionHash, details})
createTransaction(ethTx) ==
  [hash |-> ethTx.hash,
   details |-> [gas |-> ethTx.gas, gasPrice |-> FromWei(ethTx.gasPrice, WeiPerGwei)],
   status |-> Undefined, type |-> Undefined, from |-> Undefined, to |-> Undefined,
   amount |-> UndefinedStr, contractAddress |-> Undefined,
   blockNumber |-> UndefinedNum, timestamp |-> UndefinedNum]

\* No record (a local that holds nothing yet).
NoTransaction ==
  [hash |-> Undefined,
   details |-> [gas |-> 0, gasPrice |-> UndefinedStr],
   status |-> Undefined, type |-> Undefined, from |-> Undefined, to |-> Undefined,
   amount |-> UndefinedStr, contractAddress |-> Undefined,
   blockNumber |-> UndefinedNum, timestamp |-> UndefinedNum]

\* A record the wallet application wrote when a user sent the transaction:
\* its fields are the application's, not the decoder's.
ExternalRecord(h, status) ==
  [hash |-> h,
   details |-> [gas |-> 50, gasPrice |-> <<"9">>],
   status |-> status,
   type |-> IF IsEmptyInput(RawTx(h).input) THEN ETHEREUM_TRANSFER ELSE ERC20_TRANSFER,
   from |-> "W1", to |-> "X2", amount |-> <<"9", ".", "9">>,
   contractAddress |-> IF IsEmptyInput(RawTx(h).input) THEN Undefined ELSE "T1",
   blockNumber |-> IF status = TRANSACTION_STATUS_PENDING THEN UndefinedNum ELSE 1,
   timestamp |-> IF status = TRANSACTION_STATUS_PENDING THEN UndefinedNum
                 ELSE BlockTimestamp(1)]

\* processNotRegisteredEthereumTransaction
processNotRegisteredEthereumTransaction(tx, ethTx) ==
  [tx EXCEPT !.type = ETHEREUM_TRANSFER,
             !.contractAddress = Undefined,
             !.from = ethTx.from,
             !.to = ethTx.to,
             !.amount = FromWei(ethTx.value, WeiPerEther)]

\* A classifier that takes every call for a token transfer.
processNotRegisteredContractTransaction_AcceptsAll(tx, ethTx) ==
  [ok |-> TRUE,
   tx |-> [tx EXCEPT !.from = ethTx.from, !.to = ethTx.to, !.amount = ethTx.value,
                     !.type = ERC20_TRANSFER,
                     !.contractAddress = ethTx.contractAddress]]

\* processNotRegisteredContractTransaction: [ok, tx]; both branches test the
\* transfer signature, as the code does.
processNotRegisteredContractTransaction(tx, ethTx) ==
  LET methodSignature == MethodSignatureOf(ethTx.input)
      filled == [tx EXCEPT !.from = ethTx.from, !.to = ethTx.to,
                           !.amount = ethTx.value,
                           !.type = ERC20_TRANSFER,
                           !.contractAddress = ethTx.contractAddress]
  IN IF methodSignature = TransferSignature THEN [ok |-> TRUE, tx |-> filled]
     ELSE IF methodSignature = TransferSignature THEN [ok |-> TRUE, tx |-> filled]
     ELSE [ok |-> FALSE, tx |-> tx]

\* A reconciler that re-examines whatever record it finds.
IsAlreadyProcessed_Never(tx) == FALSE

\* processTransaction: "else if (tx.status !== TRANSACTION_STATUS_PENDING) return"
IsAlreadyProcessed(tx) == tx.status # TRANSACTION_STATUS_PENDING

\* processTransaction: "if (ethTx.value && ethTx.input === '0x')"
IsEthereumTransfer(ethTx) ==
  JsTruthyString(ethTx.value) /\ IsEmptyInput(ethTx.input)

\* A processTransaction that fills a pending record it found from the
\* transaction of the block, as it fills a new one.
AfterGetByHash_RefillsPending(found, stored, ethTx) ==
  IF found /\ IsAlreadyProcessed(stored)
  THEN [next |-> "terminal", isNew |-> FALSE, tx |-> stored]
  ELSE LET base == IF found THEN stored ELSE createTransaction(ethTx)
       IN IF IsEthereumTransfer(ethTx)
          THEN [next |-> "receipt", isNew |-> ~found,
                tx |-> processNotRegisteredEthereumTransaction(base, ethTx)]
          ELSE LET r == processNotRegisteredContractTransaction(base, ethTx)
               IN IF r.ok THEN [next |-> "receipt", isNew |-> ~found, tx |-> r.tx]
                  ELSE [next |-> "unknown", isNew |-> ~found, tx |-> r.tx]

\* processTransaction from the answer of txRep.getByHash to the request of
\* the receipt: where the call goes next, and its local tx.
AfterGetByHash(found, stored, ethTx) ==
  IF ~found THEN
    LET created == createTransaction(ethTx)
    IN IF IsEthereumTransfer(ethTx)
       THEN [next |-> "receipt", isNew |-> TRUE,
             tx |-> processNotRegisteredEthereumTransaction(created, ethTx)]
       ELSE LET r == processNotRegisteredContractTransaction(created, ethTx)
            IN IF r.ok THEN [next |-> "receipt", isNew |-> TRUE, tx |-> r.tx]
               ELSE [next |-> "unknown", isNew |-> TRUE, tx |-> r.tx]
  ELSE IF IsAlreadyProcessed(stored)
       THEN [next |-> "terminal", isNew |-> FALSE, tx |-> stored]
       ELSE [next |-> "receipt", isNew |-> FALSE, tx |-> stored]

\* processTransaction from the answer of getTransactionReceipt to the call of
\* txRep.save: the record that is saved.
RecordToSave(tx, receipt, blockData) ==
  [tx EXCEPT !.status = ResolveStatus(tx, receipt),
             !.timestamp = blockData.timestamp,
             !.blockNumber = blockData.number]

----------------------------------------------------------------------------
\* One call of processTransaction, and the calls of one block.

\* A call of processTransaction: where it is (queued by the executor, waiting
\* for txRep.getByHash, for getTransactionReceipt or for txRep.save, or
\* returned: "terminal", "unknown", "noReceipt", "saved", "failed") and its
\* locals.
NewCall(h) ==
  [hash |-> h, pc |-> "queued", isNew |-> FALSE, tx |-> NoTransaction,
   receipt |-> NoReceipt, found |-> Undefined]

InFlight == {"getByHash", "receipt", "save"}

\* An executor that starts every item at once.
StartNextChunk_AllAtOnce(calls, chunkSize) ==
  [i \in DOMAIN calls |->
     IF calls[i].pc = "queued" THEN [calls[i] EXCEPT !.pc = "getByHash"]
     ELSE calls[i]]

\* processAsyncItemsByChunks(items, chunkSize, mapFunc): once no call of the
\* running chunk is in flight, the next chunkSize items start.
StartNextChunk(calls, chunkSize) ==
  IF \E i \in DOMAIN calls : calls[i].pc \in InFlight THEN calls
  ELSE LET queued == {i \in DOMAIN calls : calls[i].pc = "queued"}
       IN [i \in DOMAIN calls |->
             IF i \in queued /\ Cardinality({j \in queued : j < i}) < chunkSize
             THEN [calls[i] EXCEPT !.pc = "getByHash"]
             ELSE calls[i]]

AllReturned(calls) ==
  \A i \in DOMAIN calls : calls[i].pc \notin InFlight \cup {"queued"}

\* A block callback: what it waits for ("getBlock", "wallets", "txs") or
\* "done"; how it ended; the block it got; its calls of processTransaction.
NoBlockData == BlockData(UndefinedNum, <<>>)

NewTask(n) ==
  [pc |-> "getBlock", number |-> n, outcome |-> "running",
   blockData |-> NoBlockData, calls |-> <<>>]

Finished(task, outcome) == [task EXCEPT !.pc = "done", !.outcome = outcome]

\* processTransactionsInBlock up to the request of the wallets: nothing to do
\* for a block without transactions.
EnterBlock(task, blockData) ==
  IF Len(blockData.transactions) = 0 THEN Finished(task, "ok")
  ELSE [task EXCEPT !.pc = "wallets", !.blockData = blockData]

\* processTransactionsInBlock from the answer of getWalletMapInTransactions:
\* return when no wallet is involved, else the calls of processTransaction
\* for the filtered transactions, through processAsyncItemsByChunks.
AfterWallets(task) ==
  LET wallets == getWalletMapInTransactions(task.blockData.transactions)
      transactions ==
        filterTransactionByWalletAddresses(wallets, task.blockData.transactions)
      calls == StartNextChunk([i \in 1..Len(transactions) |-> NewCall(transactions[i])],
                              CONCURRENT_TRANSACTIONS_PROCESS_COUNT)
  IN IF wallets = {} THEN Finished(task, "ok")
     ELSE IF Len(transactions) = 0 THEN Finished(task, "ok")
     ELSE [task EXCEPT !.pc = "txs", !.calls = calls]

\* An executor that rejects as soon as one of its items has thrown.
AfterCall_RejectsOnFailure(task, calls) ==
  IF \E i \in DOMAIN calls : calls[i].pc = "failed"
  THEN [Finished(task, "caught") EXCEPT !.calls = calls]
  ELSE LET next == StartNextChunk(calls, CONCURRENT_TRANSACTIONS_PROCESS_COUNT)
       IN IF AllReturned(next) THEN [Finished(task, "ok") EXCEPT !.calls = next]
          ELSE [task EXCEPT !.calls = next]

\* The callback after one of its calls moved: the executor starts the next
\* chunk, and processTransactionsInBlock returns after the last one.
AfterCall(task, calls) ==
  LET next == StartNextChunk(calls, CONCURRENT_TRANSACTIONS_PROCESS_COUNT)
  IN IF AllReturned(next) THEN [Finished(task, "ok") EXCEPT !.calls = next]
     ELSE [task EXCEPT !.calls = next]

\* The hashes that have a record, and the records of a hash.
StoredHashes(st) == {r.hash : r \in st}
RecordsOf(st, h) == {r \in st : r.hash = h}

\* A save that inserts whatever it is given.
Upsert_InsertsAlways(st, tx) == st \cup {tx}

\* txRep.save(tx): one upsert keyed by hash.
Upsert(st, tx) == {r \in st : r.hash # tx.hash} \cup {tx}

\* txRep.getByHash(hash)
getByHash(st, h) ==
  IF RecordsOf(st, h) # {}
  THEN [found |-> TRUE, tx |-> CHOOSE r \in RecordsOf(st, h) : TRUE]
  ELSE [found |-> FALSE, tx |-> NoTransaction]

NoSave ==
  [hash |-> Undefined, tx |-> NoTransaction, receipt |-> NoReceipt,
   isNew |-> FALSE, found |-> Undefined, block |-> UndefinedNum, by |-> Undefined]

\* txRep.getByHash answers call i of callback k.
GetByHashStep(k, i) ==
  /\ k \in DOMAIN tasks
  /\ tasks[k].pc = "txs"
  /\ i \in DOMAIN tasks[k].calls
  /\ tasks[k].calls[i].pc = "getByHash"
  /\ LET call == tasks[k].calls[i]
         got == getByHash(store, call.hash)
         r == AfterGetByHash(got.found, got.tx, EthTx(call.hash))
         moved == [call EXCEPT !.pc = r.next, !.isNew = r.isNew, !.tx = r.tx,
                               !.found = got.tx.status]
     IN tasks' = [tasks EXCEPT ![k] = AfterCall(@, [@.calls EXCEPT ![i] = moved])]
  /\ UNCHANGED <<head, receipts, store, lastCheckingBlock, sweep, chain,
                 startBlock, budget, lastSave, firstPass, conn>>

\* getTransactionReceipt answers call i of callback k.
ReceiptStep(k, i) ==
  /\ k \in DOMAIN tasks
  /\ tasks[k].pc = "txs"
  /\ i \in DOMAIN tasks[k].calls
  /\ tasks[k].calls[i].pc = "receipt"
  /\ LET call == tasks[k].calls[i]
         transactionReceipt == receipts[call.hash]
         moved ==
           IF transactionReceipt = NoReceipt THEN [call EXCEPT !.pc = "noReceipt"]
           ELSE [call EXCEPT !.pc = "save",
                             !.receipt = transactionReceipt,
                             !.tx = RecordToSave(call.tx, transactionReceipt,
                                                 tasks[k].blockData)]
     IN tasks' = [tasks EXCEPT ![k] = AfterCall(@, [@.calls EXCEPT ![i] = moved])]
  /\ UNCHANGED <<head, receipts, store, lastCheckingBlock, sweep, chain,
                 startBlock, budget, lastSave, firstPass, conn>>

\* txRep.save of call i of callback k takes effect.
SaveStep(k, i) ==
  /\ k \in DOMAIN tasks
  /\ tasks[k].pc = "txs"
  /\ i \in DOMAIN tasks[k].calls
  /\ tasks[k].calls[i].pc = "save"
  /\ LET call == tasks[k].calls[i]
         moved == [call EXCEPT !.pc = "saved"]
     IN /\ store' = Upsert(store, call.tx)
        /\ lastSave' = [hash |-> call.hash, tx |-> call.tx, receipt |-> call.receipt,
                        isNew |-> call.isNew, found |-> call.found,
                        block |-> tasks[k].blockData.number,
                        by |-> k[1]]
        /\ tasks' = [tasks EXCEPT ![k] = AfterCall(@, [@.calls EXCEPT ![i] = moved])]
  /\ UNCHANGED <<head, receipts, lastCheckingBlock, sweep, chain, startBlock,
                 budget, firstPass, conn>>

\* getWalletMapInTransactions answers callback k.
WalletsStep(k) ==
  /\ k \in DOMAIN tasks
  /\ tasks[k].pc = "wallets"
  /\ tasks' = [tasks EXCEPT ![k] = AfterWallets(@)]
  /\ UNCHANGED <<head, receipts, store, lastCheckingBlock, sweep, chain,
                 startBlock, budget, lastSave, firstPass, conn>>

----------------------------------------------------------------------------
\* The connection to the node: the constructor, attachEvents, onWsClose.

\* config.web3.type: the three types the constructor knows, and any other.
SupportedTypes == {"ipc", "ws", "http"}
ConnectionTypes == SupportedTypes \cup {"other"}

\* The service before its constructor ran.  provider counts the providers
\* created so far (the one in use is the latest), open tells whether its
\* connection is up, onclose which handler its connection carries ("none",
\* "direct": call onWsClose, "backoff": setTimeout(onWsClose,
\* reconnectTimeout)), subscribed the providers that got a newBlockHeaders
\* subscription, backoff whether such a timeout is pending, timer whether
\* the sweep timer is armed; closes counts the close events and attempts
\* records, for each call of onWsClose, whether a timeout preceded it.
Unconstructed(type) ==
  [type |-> type, pc |-> "constructor", provider |-> 0, open |-> FALSE,
   onclose |-> "none", subscribed |-> {}, backoff |-> FALSE, timer |-> FALSE,
   closes |-> 0, attempts |-> <<>>]

\* A constructor whose switch has no default case.
UnknownType_Never(type) == FALSE

\* constructor: "default: throw Error('Unknown Web3 RPC type!')"
UnknownType(type) == type \notin SupportedTypes

\* attachEvents: this.web3.eth.subscribe('newBlockHeaders')
attachEvents(c) == [c EXCEPT !.subscribed = @ \cup {c.provider}]

\* intervalExecuteMethod: setTimeout of the next checkTransactions.
intervalExecuteMethod(c) == [c EXCEPT !.timer = TRUE]

\* initDeferredTransactionsChecking: the first call of intervalExecuteMethod.
initDeferredTransactionsChecking(c) == intervalExecuteMethod(c)

\* A loop without the rejection handler: intervalExecuteMethod is called
\* again only after a checkTransactions that resolved.
SweepSettled_StopsOnError(c, result) ==
  IF result = "rejected" THEN c ELSE intervalExecuteMethod(c)

\* The promise of checkTransactions settled: a rejection is logged, and
\* either way the last "then" calls intervalExecuteMethod again.
SweepSettled(c, result) == intervalExecuteMethod(c)

\* A constructor that attaches the events whatever the type.
Constructor_AttachesAlways(c) ==
  IF UnknownType(c.type) THEN [c EXCEPT !.pc = "failed"]
  ELSE initDeferredTransactionsChecking(attachEvents(
         [c EXCEPT !.pc = "up", !.provider = 1, !.open = TRUE,
                   !.onclose = IF c.type = "ws" THEN "direct" ELSE "none"]))

\* constructor: the switch on config.web3.type, then attachEvents unless the
\* type is http, then initDeferredTransactionsChecking.
Constructor(c) ==
  IF UnknownType(c.type) THEN [c EXCEPT !.pc = "failed"]
  ELSE LET provided ==
             [c EXCEPT !.pc = "up", !.provider = 1, !.open = TRUE,
                       !.onclose = IF c.type = "ws" THEN "direct" ELSE "none"]
           attached == IF c.type # "http" THEN attachEvents(provided) ELSE provided
       IN initDeferredTransactionsChecking(attached)

\* onWsClose: a new provider whose close handler waits reconnectTimeout
\* before it calls onWsClose again, setProvider, attachEvents.
onWsClose(c, afterTimeout) ==
  attachEvents([c EXCEPT !.provider = @ + 1, !.open = TRUE, !.onclose = "backoff",
                         !.attempts = Append(@, afterTimeout)])

\* Whether 'data' events can arrive: the provider in use is connected and has
\* the subscription.
Subscribed(c) == c.open /\ c.provider \in c.subscribed

\* The service once constructed over a websocket.
Established == Constructor(Unconstructed("ws"))

----------------------------------------------------------------------------
\* A block fed to the reconciler twice in a row, nothing else going on.

PassBlock == AdvanceMargin

\* The blocks that are fed.
BlockCatalog ==
  {<<h>> : h \in Hashes} \cup {<<"hU", "hN">>, <<"hE", "hO">>}

HashesOf(hashes) == {hashes[i] : i \in 1..Len(hashes)}

StoredStatuses ==
  {TRANSACTION_STATUS_PENDING, TRANSACTION_STATUS_CONFIRMED, TRANSACTION_STATUS_FAILED}

\* No receipt yet, and the receipt of a transfer that went through.
PlainReceipts == {NoReceipt, [status |-> "0x1", logs |-> <<"Transfer">>]}

\* checkTransactions: where the call is ("idle" between two calls, "find",
\* "getBlockNumber", "range"), its locals, the callbacks of its range that
\* have returned, how the latest call ended, and (history) the block numbers
\* its range handed to the callback so far, the head each of the latest
\* completed calls observed and the cursor it left, and the blocks whose
\* handling failed in a call that ended and that no later call has handled.
Idle ==
  [pc |-> "idle", currentBlock |-> UndefinedNum, from |-> UndefinedNum,
   next |-> UndefinedNum, finished |-> <<>>, result |-> "none",
   submitted |-> <<>>, heads |-> <<>>, cursors |-> <<>>, owed |-> {}]

\* The history of the latest MaxSweeps completed calls.
Remember(history, x) ==
  IF Len(history) < MaxSweeps THEN Append(history, x)
  ELSE Append(Tail(history), x)

\* The blocks of a range whose callback rejected or caught an error, or one
\* of whose calls of processTransaction threw.
FailedBlocks(finished) ==
  {b \in DOMAIN finished :
     \/ finished[b].outcome \in {"rejected", "caught"}
     \/ \E i \in DOMAIN finished[b].calls : finished[b].calls[i].pc = "failed"}

\* The blocks still owed after a call that ended: those it failed on, and
\* those owed before that it did not handle.
Owed(owed, finished) == (owed \ DOMAIN finished) \cup FailedBlocks(finished)

\* A budget that does not run out.
Unbounded == 0 - 1

FullBudget ==
  [sweeps |-> MaxSweeps, live |-> MaxLive, failures |-> MaxFailures,
   headMoves |-> MaxHeadMoves]

InitBlock ==
  /\ \E content \in BlockCatalog :
       /\ chain = [n \in {PassBlock} |-> content]
       /\ \E first \in Receipts \cup {NoReceipt}, others \in PlainReceipts :
            receipts = [h \in Hashes |->
                          IF h = content[1] THEN first
                          ELSE IF h \in HashesOf(content) THEN others
                          ELSE NoReceipt]
       /\ \E known \in SUBSET HashesOf(content) :
            \E st \in [known -> StoredStatuses] :
              store = {ExternalRecord(h, st[h]) : h \in known}
  /\ head = PassBlock
  /\ lastCheckingBlock = 0
  /\ sweep = Idle
  /\ tasks = <<>>
  /\ startBlock = 0
  /\ budget = FullBudget
  /\ lastSave = NoSave
  /\ firstPass = [taken |-> FALSE, store |-> {}]
  /\ conn = Established

\* processTransactionsInBlock(blockData) is called for the block: first when
\* nothing ran yet, again when the first pass has returned.
StartPass(n) ==
  /\ \/ n = 1 /\ tasks = <<>> /\ UNCHANGED firstPass
     \/ /\ n = 2
        /\ DOMAIN tasks = {<<"pass", 1>>}
        /\ tasks[<<"pass", 1>>].pc = "done"
        /\ firstPass' = [taken |-> TRUE, store |-> store]
  /\ tasks' = [k \in {<<"pass", n>>} |->
                 EnterBlock(NewTask(PassBlock), BlockData(PassBlock, chain[PassBlock]))]
  /\ UNCHANGED <<head, receipts, store, lastCheckingBlock, sweep, chain,
                 startBlock, budget, lastSave, conn>>

NextBlock ==
  \/ \E n \in 1..2 : StartPass(n)
  \/ \E k \in DOMAIN tasks : WalletsStep(k)
  \/ \E k \in DOMAIN tasks : \E i \in DOMAIN tasks[k].calls : GetByHashStep(k, i)
  \/ \E k \in DOMAIN tasks : \E i \in DOMAIN tasks[k].calls : ReceiptStep(k, i)
  \/ \E k \in DOMAIN tasks : \E i \in DOMAIN tasks[k].calls : SaveStep(k, i)

SpecBlock == InitBlock /\ [][NextBlock]_vars

----------------------------------------------------------------------------
\* The service: the timer-driven sweep (checkTransactions), the block-header
\* subscription (processNewBlockHeaders), the node and the stores around them.

\* The heads the node reports lie around the margin the cursor keeps.
HeadValues == (AdvanceMargin - 1)..(AdvanceMargin + HeadSpan)

\* The two blocks of the chain that hold transactions.
BlockA == AdvanceMargin - 2
BlockB == AdvanceMargin - 1
ServiceChain == (BlockA :> <<"hU", "hN">>) @@ (BlockB :> <<"hO">>)

\* How the service starts: config.web3.startBlock left at 0 and an empty
\* store, or a start block configured and the record of hO, which a wallet of
\* the service has just sent.
Deployments ==
  {[startBlock |-> 0, store |-> {}],
   [startBlock |-> AdvanceMargin - 3,
    store |-> {ExternalRecord("hO", TRANSACTION_STATUS_PENDING)}]}

\* The receipts the node has from the start, and those of hO, which is mined
\* while the service runs.
MinedReceipts ==
  [h \in Hashes |->
     IF h \in {"hU", "hN"} THEN [status |-> "0x1", logs |-> <<>>] ELSE NoReceipt]
LateReceipts == {[status |-> "0x1", logs |-> <<>>], [status |-> "0x0", logs |-> <<>>]}

Max(a, b) == IF a >= b THEN a ELSE b

TransactionsOf(ch, n) == IF n \in DOMAIN ch THEN ch[n] ELSE <<>>

\* web3.eth.getBlock(n, true): the block, or null beyond the head.
getBlock(ch, hd, n) ==
  IF n >= 0 /\ n <= hd THEN BlockData(n, TransactionsOf(ch, n)) ELSE NoBlockData

\* "if (!this.lastCheckingBlock)": undefined and 0 are both falsy.
CursorUnset(cursor) == cursor = 0

\* find({order: {blockNumber: -1}, take: 1}) and
\* "txWithMaxBlockHeight.length && txWithMaxBlockHeight.pop().blockNumber || 0"
MaxStoredBlock(st) ==
  LET numbers == {r.blockNumber : r \in st} \cup {0}
  IN CHOOSE n \in numbers : \A m \in numbers : m <= n

\* checkTransactions: the cursor restored from the store and the configuration.
RestoredCursor(st, sb) == Max(MaxStoredBlock(st) - InitMargin, sb)

\* checkTransactions: the cursor after getBlockNumber answered.
RangeStart(cursor, currentBlock) ==
  IF CursorUnset(cursor) THEN currentBlock - InitMargin ELSE cursor

\* checkTransactions: "this.lastCheckingBlock = currentBlock - 10"
AdvancedCursor(currentBlock) == currentBlock - AdvanceMargin

\* A range that stops short of its upper end.
RangeChunk_ExcludesTo(next, to) ==
  {n \in next..(to - 1) : n < next + CONCURRENT_BLOCK_PROCESS_COUNT}

\* processAsyncIntRangeByChunks(from, to, 1, chunkSize, cb): the numbers of the
\* chunk that starts at next.
RangeChunk(next, to) ==
  {n \in next..to : n < next + CONCURRENT_BLOCK_PROCESS_COUNT}

\* The numbers of a chunk in the order the callback is called for them.
Ascending(S) ==
  [i \in 1..Cardinality(S) |->
     CHOOSE n \in S : Cardinality({m \in S : m < n}) = i - 1]

\* A range executor that gives up when a callback rejects.
RangeGoesOn_UnlessRejected(finished) ==
  \A b \in DOMAIN finished : finished[b].outcome # "rejected"

\* How a callback of the range can end: it processed its block, found no
\* block, caught a failure of the processing, or rejected.
CallbackOutcomes == {"ok", "null", "caught", "rejected"}

\* processAsyncIntRangeByChunks: a callback that rejects is logged and
\* skipped; the range goes on with the remaining numbers however the
\* callbacks ended.
RangeGoesOn(finished) ==
  \A b \in DOMAIN finished : finished[b].outcome \in CallbackOutcomes

\* What is kept of a callback that has returned: how it ended and how each of
\* its calls of processTransaction returned.
Returned(task) ==
  [outcome |-> task.outcome,
   calls |-> [i \in DOMAIN task.calls |->
                [hash |-> task.calls[i].hash, pc |-> task.calls[i].pc]]]

\* How a failure inside processTransactionsInBlock ends the callback: caught
\* and logged in the sweep; nobody awaits it on the live path.
ProcessingFailure(kind) == IF kind = "sweep" THEN "caught" ELSE "unhandled"

\* How a failure of getBlock ends the callback: the sweep callback rejects;
\* processNewBlockHeaders rejects into the event emitter.
FetchFailure(kind) == IF kind = "sweep" THEN "rejected" ELSE "unhandled"

SweepTasks == {k \in DOMAIN tasks : k[1] = "sweep"}

Init ==
  /\ chain = ServiceChain
  /\ head \in HeadValues
  /\ \E d \in Deployments : startBlock = d.startBlock /\ store = d.store
  /\ receipts = MinedReceipts
  /\ lastCheckingBlock = 0
  /\ sweep = Idle
  /\ tasks = <<>>
  /\ budget = FullBudget
  /\ lastSave = NoSave
  /\ firstPass = [taken |-> FALSE, store |-> {}]
  /\ conn = Established

\* A timer that stays armed when it fires, as one set with setInterval.
TimerFires_StaysArmed ==
  /\ conn.timer
  /\ budget.sweeps # 0
  /\ budget' = [budget EXCEPT !.sweeps = IF @ = Unbounded THEN @ ELSE @ - 1]
  /\ sweep' = [sweep EXCEPT
                 !.pc = IF CursorUnset(lastCheckingBlock) THEN "find"
                        ELSE "getBlockNumber",
                 !.currentBlock = UndefinedNum, !.from = UndefinedNum,
                 !.next = UndefinedNum, !.finished = <<>>,
                 !.submitted = <<>>, !.result = "running"]
  /\ UNCHANGED <<head, receipts, store, lastCheckingBlock, tasks, chain,
                 startBlock, lastSave, firstPass, conn>>

\* The timeout that intervalExecuteMethod set fires: checkTransactions
\* starts, with the query for the highest stored block when the cursor is
\* unset.  The timeout is spent; nothing else starts checkTransactions.
TimerFires ==
  /\ conn.timer
  /\ budget.sweeps # 0
  /\ budget' = [budget EXCEPT !.sweeps = IF @ = Unbounded THEN @ ELSE @ - 1]
  /\ sweep' = [sweep EXCEPT
                 !.pc = IF CursorUnset(lastCheckingBlock) THEN "find"
                        ELSE "getBlockNumber",
                 !.currentBlock = UndefinedNum, !.from = UndefinedNum,
                 !.next = UndefinedNum, !.finished = <<>>,
                 !.submitted = <<>>, !.result = "running"]
  /\ conn' = [conn EXCEPT !.timer = FALSE]
  /\ UNCHANGED <<head, receipts, store, lastCheckingBlock, tasks, chain,
                 startBlock, lastSave, firstPass>>

\* The query for the highest stored block answers.
FindStep ==
  /\ sweep.pc = "find"
  /\ lastCheckingBlock' = RestoredCursor(store, startBlock)
  /\ sweep' = [sweep EXCEPT !.pc = "getBlockNumber"]
  /\ UNCHANGED <<head, receipts, store, tasks, chain, startBlock, budget,
                 lastSave, firstPass, conn>>

\* A sweep that moves the cursor to the head minus the margin as soon as it
\* knows the head.
GetBlockNumberStep_AdvancesAtOnce ==
  /\ sweep.pc = "getBlockNumber"
  /\ LET currentBlock == head
         from == RangeStart(lastCheckingBlock, currentBlock)
         chunk == RangeChunk(from, currentBlock)
     IN /\ lastCheckingBlock' = AdvancedCursor(currentBlock)
        /\ sweep' = [sweep EXCEPT !.pc = "range", !.currentBlock = currentBlock,
                                  !.from = from,
                                  !.next = from + CONCURRENT_BLOCK_PROCESS_COUNT,
                                  !.submitted = Ascending(chunk)]
        /\ tasks' = [k \in {<<"sweep", n>> : n \in chunk} |-> NewTask(k[2])] @@ tasks
  /\ UNCHANGED <<head, receipts, store, chain, startBlock, budget, lastSave,
                 firstPass, conn>>

\* web3.eth.getBlockNumber answers: the range is fixed and its first chunk
\* of callbacks starts.
GetBlockNumberStep ==
  /\ sweep.pc = "getBlockNumber"
  /\ LET currentBlock == head
         from == RangeStart(lastCheckingBlock, currentBlock)
         chunk == RangeChunk(from, currentBlock)
     IN /\ lastCheckingBlock' = from
        /\ sweep' = [sweep EXCEPT !.pc = "range", !.currentBlock = currentBlock,
                                  !.from = from,
                                  !.next = from + CONCURRENT_BLOCK_PROCESS_COUNT,
                                  !.submitted = Ascending(chunk)]
        /\ tasks' = [k \in {<<"sweep", n>> : n \in chunk} |-> NewTask(k[2])] @@ tasks
  /\ UNCHANGED <<head, receipts, store, chain, startBlock, budget, lastSave,
                 firstPass, conn>>

\* The query or getBlockNumber fails: checkTransactions rejects, the timer
\* logs the error and re-arms.
SweepCallFails ==
  /\ sweep.pc \in {"find", "getBlockNumber"}
  /\ budget.failures > 0
  /\ budget' = [budget EXCEPT !.failures = @ - 1]
  /\ sweep' = [sweep EXCEPT !.pc = "idle", !.result = "rejected"]
  /\ conn' = SweepSettled(conn, "rejected")
  /\ UNCHANGED <<head, receipts, store, lastCheckingBlock, tasks, chain,
                 startBlock, lastSave, firstPass>>

\* The callbacks of the running chunk have all returned: the next chunk
\* starts, or the range is over and checkTransactions moves the cursor and
\* returns.
RangeStep ==
  /\ sweep.pc = "range"
  /\ \A k \in SweepTasks : tasks[k].pc = "done"
  /\ LET finished == [n \in {k[2] : k \in SweepTasks} |->
                         Returned(tasks[<<"sweep", n>>])] @@ sweep.finished
         others == [k \in DOMAIN tasks \ SweepTasks |-> tasks[k]]
         chunk == RangeChunk(sweep.next, sweep.currentBlock)
     IN IF ~RangeGoesOn(finished)
        THEN /\ sweep' = [sweep EXCEPT !.pc = "idle", !.result = "rejected",
                                       !.finished = finished,
                                       !.owed = Owed(@, finished)]
             /\ tasks' = others
             /\ conn' = SweepSettled(conn, "rejected")
             /\ UNCHANGED lastCheckingBlock
        ELSE IF chunk # {}
        THEN /\ sweep' = [sweep EXCEPT !.finished = finished,
                                       !.next = @ + CONCURRENT_BLOCK_PROCESS_COUNT,
                                       !.submitted = @ \o Ascending(chunk)]
             /\ tasks' = [k \in {<<"sweep", n>> : n \in chunk} |-> NewTask(k[2])]
                           @@ others
             /\ UNCHANGED <<lastCheckingBlock, conn>>
        ELSE /\ lastCheckingBlock' = AdvancedCursor(sweep.currentBlock)
             /\ sweep' = [sweep EXCEPT !.pc = "idle", !.result = "completed",
                                       !.finished = finished,
                                       !.heads = Remember(@, sweep.currentBlock),
                                       !.cursors = Remember(@,
                                          AdvancedCursor(sweep.currentBlock)),
                                       !.owed = Owed(@, finished)]
             /\ tasks' = others
             /\ conn' = SweepSettled(conn, "completed")
  /\ UNCHANGED <<head, receipts, store, chain, startBlock, budget, lastSave,
                 firstPass>>

LiveTask(n) == <<"live", n>>

\* The headers the subscription delivers: of a pending block (no number), or
\* of a block of the chain.
HeaderNumbers == {0, BlockB}

\* 'data' of the newBlockHeaders subscription on the provider in use:
\* processNewBlockHeaders skips a
\* header without number, else asks for the block.
NewBlockHeader(number) ==
  /\ Subscribed(conn)
  /\ budget.live > 0
  /\ number <= head
  /\ IF number = 0
     THEN UNCHANGED <<budget, tasks>>
     ELSE /\ budget' = [budget EXCEPT !.live = @ - 1]
          /\ tasks' = (LiveTask(budget.live) :> NewTask(number)) @@ tasks
  /\ UNCHANGED <<head, receipts, store, lastCheckingBlock, sweep, chain,
                 startBlock, lastSave, firstPass, conn>>

\* web3.eth.getBlock answers callback k: nothing to do without a block, else
\* processTransactionsInBlock starts.  What the node answers for a negative
\* number is not fixed: no block, or an error.
GetBlockStep(k) ==
  /\ k \in DOMAIN tasks
  /\ tasks[k].pc = "getBlock"
  /\ LET blockData == getBlock(chain, head, tasks[k].number)
     IN \/ /\ blockData = NoBlockData
           /\ tasks' = [tasks EXCEPT ![k] = Finished(@, "null")]
        \/ /\ blockData # NoBlockData
           /\ tasks' = [tasks EXCEPT ![k] = EnterBlock(@, blockData)]
        \/ /\ tasks[k].number < 0
           /\ tasks' = [tasks EXCEPT ![k] = Finished(@, FetchFailure(k[1]))]
  /\ UNCHANGED <<head, receipts, store, lastCheckingBlock, sweep, chain,
                 startBlock, budget, lastSave, firstPass, conn>>

\* web3.eth.getBlock fails for callback k (the failures that are followed
\* are those of the blocks that hold transactions).
GetBlockFails(k) ==
  /\ k \in DOMAIN tasks
  /\ tasks[k].pc = "getBlock"
  /\ tasks[k].number \in DOMAIN chain
  /\ budget.failures > 0
  /\ budget' = [budget EXCEPT !.failures = @ - 1]
  /\ tasks' = [tasks EXCEPT ![k] = Finished(@, FetchFailure(k[1]))]
  /\ UNCHANGED <<head, receipts, store, lastCheckingBlock, sweep, chain,
                 startBlock, lastSave, firstPass, conn>>

\* userRep.getAllByWalletAddresses fails for callback k:
\* processTransactionsInBlock throws.
WalletsFails(k) ==
  /\ k \in DOMAIN tasks
  /\ tasks[k].pc = "wallets"
  /\ budget.failures > 0
  /\ budget' = [budget EXCEPT !.failures = @ - 1]
  /\ tasks' = [tasks EXCEPT ![k] = Finished(@, ProcessingFailure(k[1]))]
  /\ UNCHANGED <<head, receipts, store, lastCheckingBlock, sweep, chain,
                 startBlock, lastSave, firstPass, conn>>

\* web3.eth.getTransactionReceipt fails for call i of callback k:
\* processTransaction throws, processAsyncItemsByChunks logs it and goes on
\* with the other transactions.
ReceiptFails(k, i) ==
  /\ k \in DOMAIN tasks
  /\ tasks[k].pc = "txs"
  /\ i \in DOMAIN tasks[k].calls
  /\ tasks[k].calls[i].pc = "receipt"
  /\ budget.failures > 0
  /\ budget' = [budget EXCEPT !.failures = @ - 1]
  /\ LET moved == [tasks[k].calls[i] EXCEPT !.pc = "failed"]
     IN tasks' = [tasks EXCEPT ![k] = AfterCall(@, [@.calls EXCEPT ![i] = moved])]
  /\ UNCHANGED <<head, receipts, store, lastCheckingBlock, sweep, chain,
                 startBlock, lastSave, firstPass, conn>>

\* The node switches to a chain with another head, between a sweep that
\* completed and the next one.
HeadMoves(h) ==
  /\ budget.headMoves > 0
  /\ sweep.pc = "idle"
  /\ sweep.heads # <<>>
  /\ budget.sweeps > 0
  /\ h # head
  /\ head' = h
  /\ budget' = [budget EXCEPT !.headMoves = @ - 1]
  /\ UNCHANGED <<receipts, store, lastCheckingBlock, sweep, tasks, chain,
                 startBlock, lastSave, firstPass, conn>>

\* The transaction hO is mined, between two sweeps: the node has its receipt
\* from now on.
ReceiptArrives(r) ==
  /\ receipts["hO"] = NoReceipt
  /\ sweep.pc = "idle"
  /\ r \in LateReceipts
  /\ receipts' = [receipts EXCEPT !["hO"] = r]
  /\ UNCHANGED <<head, store, lastCheckingBlock, sweep, tasks, chain,
                 startBlock, budget, lastSave, firstPass, conn>>

Next ==
  \/ TimerFires
  \/ FindStep
  \/ GetBlockNumberStep
  \/ SweepCallFails
  \/ RangeStep
  \/ \E number \in HeaderNumbers : NewBlockHeader(number)
  \/ \E k \in DOMAIN tasks : GetBlockStep(k)
  \/ \E k \in DOMAIN tasks : GetBlockFails(k)
  \/ \E k \in DOMAIN tasks : WalletsStep(k)
  \/ \E k \in DOMAIN tasks : WalletsFails(k)
  \/ \E k \in DOMAIN tasks : \E i \in DOMAIN tasks[k].calls : GetByHashStep(k, i)
  \/ \E k \in DOMAIN tasks : \E i \in DOMAIN tasks[k].calls : ReceiptStep(k, i)
  \/ \E k \in DOMAIN tasks : \E i \in DOMAIN tasks[k].calls : SaveStep(k, i)
  \/ \E k \in DOMAIN tasks : \E i \in DOMAIN tasks[k].calls : ReceiptFails(k, i)
  \/ \E h \in HeadValues : HeadMoves(h)
  \/ \E r \in LateReceipts : ReceiptArrives(r)

Spec == Init /\ [][Next]_vars

----------------------------------------------------------------------------
\* One sweep over a range of more than CONCURRENT_BLOCK_PROCESS_COUNT blocks,
\* one of which holds more than CONCURRENT_TRANSACTIONS_PROCESS_COUNT
\* transactions of monitored wallets.

\* The block of the sweep that holds transactions: all of them involve a
\* monitored wallet and are classified.
CrowdedBlock == <<"hN", "hO", "hE", "hS", "hZ">>

InitChunks ==
  /\ chain = (BlockB :> CrowdedBlock)
  /\ head \in HeadValues
  /\ startBlock = 0
  /\ store = {}
  /\ receipts = [h \in Hashes |->
                   IF h \in HashesOf(CrowdedBlock)
                   THEN [status |-> "0x1", logs |-> <<"Transfer">>]
                   ELSE NoReceipt]
  /\ lastCheckingBlock = 0
  /\ sweep = Idle
  /\ tasks = <<>>
  /\ budget = [FullBudget EXCEPT !.sweeps = 1, !.live = 0, !.headMoves = 0]
  /\ lastSave = NoSave
  /\ firstPass = [taken |-> FALSE, store |-> {}]
  /\ conn = Established

NextChunks ==
  \/ TimerFires
  \/ FindStep
  \/ GetBlockNumberStep
  \/ RangeStep
  \/ \E k \in DOMAIN tasks : GetBlockStep(k)
  \/ \E k \in DOMAIN tasks : WalletsStep(k)
  \/ \E k \in DOMAIN tasks : \E i \in DOMAIN tasks[k].calls : GetByHashStep(k, i)
  \/ \E k \in DOMAIN tasks : \E i \in DOMAIN tasks[k].calls : ReceiptStep(k, i)
  \/ \E k \in DOMAIN tasks : \E i \in DOMAIN tasks[k].calls : SaveStep(k, i)
  \/ \E k \in DOMAIN tasks : \E i \in DOMAIN tasks[k].calls : ReceiptFails(k, i)

SpecChunks == InitChunks /\ [][NextChunks]_vars

----------------------------------------------------------------------------
\* The service from its construction on, for every connection type, with
\* the connection closing under it.

\* The constructor runs.
Construct ==
  /\ conn.pc = "constructor"
  /\ conn' = Constructor(conn)
  /\ UNCHANGED <<head, receipts, store, lastCheckingBlock, sweep, tasks, chain,
                 startBlock, budget, lastSave, firstPass>>

\* The connection of the provider in use closes: its onclose handler runs.
\* The handler the constructor installed calls onWsClose; the one onWsClose
\* installed sets the timeout.
ConnectionCloses ==
  /\ conn.pc = "up"
  /\ conn.type \in {"ipc", "ws"}
  /\ conn.open
  /\ conn.closes < MaxCloses
  /\ LET closed == [conn EXCEPT !.open = FALSE, !.closes = @ + 1]
     IN conn' = CASE conn.onclose = "direct" -> onWsClose(closed, FALSE)
                  [] conn.onclose = "backoff" -> [closed EXCEPT !.backoff = TRUE]
                  [] OTHER -> closed
  /\ UNCHANGED <<head, receipts, store, lastCheckingBlock, sweep, tasks, chain,
                 startBlock, budget, lastSave, firstPass>>

\* config.web3.reconnectTimeout has passed: the timeout calls onWsClose.
BackoffElapses ==
  /\ conn.backoff
  /\ conn' = onWsClose([conn EXCEPT !.backoff = FALSE], TRUE)
  /\ UNCHANGED <<head, receipts, store, lastCheckingBlock, sweep, tasks, chain,
                 startBlock, budget, lastSave, firstPass>>

InitConn ==
  /\ chain = ServiceChain
  /\ head = AdvanceMargin
  /\ startBlock = 0
  /\ store = {}
  /\ receipts = MinedReceipts
  /\ lastCheckingBlock = 0
  /\ sweep = Idle
  /\ tasks = <<>>
  /\ budget = [FullBudget EXCEPT !.sweeps = 1, !.failures = 0, !.headMoves = 0]
  /\ lastSave = NoSave
  /\ firstPass = [taken |-> FALSE, store |-> {}]
  /\ \E type \in ConnectionTypes : conn = Unconstructed(type)

NextConn ==
  \/ Construct
  \/ ConnectionCloses
  \/ BackoffElapses
  \/ TimerFires
  \/ FindStep
  \/ GetBlockNumberStep
  \/ RangeStep
  \/ \E number \in HeaderNumbers : NewBlockHeader(number)
  \/ \E k \in DOMAIN tasks : GetBlockStep(k)
  \/ \E k \in DOMAIN tasks : WalletsStep(k)
  \/ \E k \in DOMAIN tasks : \E i \in DOMAIN tasks[k].calls : GetByHashStep(k, i)
  \/ \E k \in DOMAIN tasks : \E i \in DOMAIN tasks[k].calls : ReceiptStep(k, i)
  \/ \E k \in DOMAIN tasks : \E i \in DOMAIN tasks[k].calls : SaveStep(k, i)

\* A timeout that was set fires: the event loop runs every timer that is due.
SpecConn == InitConn /\ [][NextConn]_vars /\ WF_vars(BackoffElapses)

----------------------------------------------------------------------------
\* The cursor of the sweep, for heads below and above the margins, start
\* blocks and stores of every kind, over blocks without transactions.

\* A record of the store that was settled in block n.
StoredAt(h, n) ==
  [ExternalRecord(h, TRANSACTION_STATUS_CONFIRMED) EXCEPT
     !.blockNumber = n, !.timestamp = BlockTimestamp(n)]

\* The heads the node reports: below the margins, at the margin, above it,
\* and further above it than the margins together.
CursorHeads ==
  {InitMargin - 2, AdvanceMargin, AdvanceMargin + 2, AdvanceMargin + InitMargin + 2}

\* The stores the service may start with: empty, or records settled in
\* block InitMargin, in block BlockB, or in both.
CursorStores ==
  {{}, {StoredAt("hN", InitMargin)}, {StoredAt("hO", BlockB)},
   {StoredAt("hN", InitMargin), StoredAt("hO", BlockB)}}

InitCursor ==
  /\ chain = <<>>
  /\ head \in CursorHeads
  /\ startBlock \in {0, AdvanceMargin - 3}
  /\ store \in CursorStores
  /\ \A r \in store : r.blockNumber <= head
  /\ receipts = MinedReceipts
  /\ lastCheckingBlock = 0
  /\ sweep = Idle
  /\ tasks = <<>>
  /\ budget = [FullBudget EXCEPT !.live = 0, !.failures = 0]
  /\ lastSave = NoSave
  /\ firstPass = [taken |-> FALSE, store |-> {}]
  /\ conn = Established

NextCursor ==
  \/ TimerFires
  \/ FindStep
  \/ GetBlockNumberStep
  \/ RangeStep
  \/ \E k \in DOMAIN tasks : GetBlockStep(k)
  \/ \E h \in CursorHeads : HeadMoves(h)

SpecCursor == InitCursor /\ [][NextCursor]_vars

----------------------------------------------------------------------------
\* The sweep loop running for ever over a chain that stands still, with
\* transient failures of the calls it makes.

\* The head of the chain, and the block just below the cursor that a sweep
\* up to this head leaves.
LoopHead == AdvanceMargin + 2
OldBlock == AdvancedCursor(LoopHead) - 1

\* How the service starts: catching up from a configured start block over a
\* block that holds a transfer to a monitored wallet; or with the pending
\* record of hO, which was mined in a recent block, or in an old one.
LoopDeployments ==
  {[chain |-> (OldBlock :> <<"hN">>), startBlock |-> OldBlock, store |-> {}],
   [chain |-> (BlockB :> <<"hO">>), startBlock |-> 0,
    store |-> {ExternalRecord("hO", TRANSACTION_STATUS_PENDING)}],
   [chain |-> (OldBlock :> <<"hO">>), startBlock |-> 0,
    store |-> {ExternalRecord("hO", TRANSACTION_STATUS_PENDING)}]}

InitLoop ==
  /\ \E d \in LoopDeployments :
       chain = d.chain /\ startBlock = d.startBlock /\ store = d.store
  /\ head = LoopHead
  /\ receipts = MinedReceipts
  /\ lastCheckingBlock = 0
  /\ sweep = Idle
  /\ tasks = <<>>
  /\ budget = [FullBudget EXCEPT !.sweeps = Unbounded, !.live = 0, !.headMoves = 0]
  /\ lastSave = NoSave
  /\ firstPass = [taken |-> FALSE, store |-> {}]
  /\ conn = Established

\* The steps of the service itself when the calls it waits for succeed.
LoopProgress ==
  \/ TimerFires
  \/ FindStep
  \/ GetBlockNumberStep
  \/ RangeStep
  \/ \E k \in DOMAIN tasks : GetBlockStep(k)
  \/ \E k \in DOMAIN tasks : WalletsStep(k)
  \/ \E k \in DOMAIN tasks : \E i \in DOMAIN tasks[k].calls : GetByHashStep(k, i)
  \/ \E k \in DOMAIN tasks : \E i \in DOMAIN tasks[k].calls : ReceiptStep(k, i)
  \/ \E k \in DOMAIN tasks : \E i \in DOMAIN tasks[k].calls : SaveStep(k, i)

NextLoop ==
  \/ LoopProgress
  \/ SweepCallFails
  \/ \E k \in DOMAIN tasks : GetBlockFails(k)
  \/ \E k \in DOMAIN tasks : WalletsFails(k)
  \/ \E k \in DOMAIN tasks : \E i \in DOMAIN tasks[k].calls : ReceiptFails(k, i)
  \/ \E r \in LateReceipts : ReceiptArrives(r)

\* Timers that are due fire and the calls in flight are answered: a step of
\* the service that stays possible is taken.
SpecLoop == InitLoop /\ [][NextLoop]_vars /\ WF_vars(LoopProgress)

----------------------------------------------------------------------------
\* Properties of the reconciler on one block (SpecBlock).

AllCalls == UNION {{<<k, i>> : i \in DOMAIN tasks[k].calls} : k \in DOMAIN tasks}
CallAt(c) == tasks[c[1]].calls[c[2]]

PassDone(n) == <<"pass", n>> \in DOMAIN tasks /\ tasks[<<"pass", n>>].pc = "done"

Saved == lastSave.hash # Undefined

\* C2: when the same block has been processed twice in a row, the store
\* holds the same hashes as after the first pass, one record for each.
C2_SecondPassKeepsOneRecordPerHash ==
  PassDone(2) =>
    /\ StoredHashes(store) = StoredHashes(firstPass.store)
    /\ \A h \in StoredHashes(store) : Cardinality(RecordsOf(store, h)) = 1

\* The second pass met a record that the first pass had created.
C2_Witness ==
  /\ PassDone(2)
  /\ lastSave.isNew
  /\ \E i \in DOMAIN tasks[<<"pass", 2>>].calls :
       /\ tasks[<<"pass", 2>>].calls[i].hash = lastSave.hash
       /\ tasks[<<"pass", 2>>].calls[i].pc = "terminal"

\* C3: once processTransaction has returned for a transaction seen for the
\* first time, classified as a transfer and without a receipt yet, the store
\* holds a Pending record of its hash.
C3_FirstSightingLeavesPendingRecord ==
  \A c \in AllCalls :
    (CallAt(c).pc = "noReceipt" /\ CallAt(c).isNew) =>
      \E r \in store : r.hash = CallAt(c).hash /\ r.status = TRANSACTION_STATUS_PENDING

\* C4: an erc20 transfer saved on a receipt with success status is Confirmed
\* when one of the receipt's logs is a Transfer event with sender and
\* recipient, whatever the other logs are, and Failed when none is.
C4_Erc20ConfirmedByOneTransferLog ==
  (Saved /\ lastSave.tx.type = ERC20_TRANSFER /\ lastSave.receipt.status = "0x1") =>
    lastSave.tx.status =
      IF \E i \in 1..Len(lastSave.receipt.logs) : lastSave.receipt.logs[i] = "Transfer"
      THEN TRANSACTION_STATUS_CONFIRMED
      ELSE TRANSACTION_STATUS_FAILED

\* An erc20 transfer confirmed by the first of two logs, the second not a
\* Transfer event.
C4_Witness ==
  /\ Saved
  /\ lastSave.tx.type = ERC20_TRANSFER
  /\ lastSave.receipt = [status |-> "0x1", logs |-> <<"Transfer", "Undecodable">>]
  /\ lastSave.tx.status = TRANSACTION_STATUS_CONFIRMED
  /\ lastSave.tx \in store

\* C5: a native transfer saved on a receipt with success status is Confirmed;
\* a transaction of either type saved on a receipt with revert status is
\* Failed, Transfer logs or not; the saved blockNumber is the number of the
\* block the transaction was seen in.
C5_ReceiptStatusDecides ==
  Saved =>
    /\ (lastSave.tx.type = ETHEREUM_TRANSFER /\ lastSave.receipt.status = "0x1")
         => lastSave.tx.status = TRANSACTION_STATUS_CONFIRMED
    /\ lastSave.receipt.status = "0x0"
         => lastSave.tx.status = TRANSACTION_STATUS_FAILED
    /\ lastSave.tx.blockNumber = lastSave.block
    /\ lastSave.block = PassBlock

\* An erc20 transfer saved as Failed on a reverted receipt that carries a
\* Transfer log.
C5_Witness ==
  /\ Saved
  /\ lastSave.tx.type = ERC20_TRANSFER
  /\ lastSave.receipt = [status |-> "0x0", logs |-> <<"Transfer">>]
  /\ lastSave.tx.status = TRANSACTION_STATUS_FAILED
  /\ lastSave.tx.blockNumber = PassBlock
  /\ lastSave.tx \in store

\* Call data that starts with the transfer selector and has the length of
\* transfer(address,uint256).
IsTransferCall(t) ==
  t.input.sel = TransferSignature /\ Len(t.input.words) = 2

\* C10: a record created for a transaction whose call data is a
\* transfer(address,uint256) call of the exact length has type Erc20Transfer,
\* the raw to as contractAddress, the decoded recipient as to, the decoded
\* amount as amount and the raw sender as from.
C10_TransferCallRecordedAsErc20 ==
  (Saved /\ lastSave.isNew /\ IsTransferCall(RawTx(lastSave.hash))) =>
    LET t == RawTx(lastSave.hash)
    IN /\ lastSave.tx.type = ERC20_TRANSFER
       /\ lastSave.tx.contractAddress = t.to
       /\ lastSave.tx.to = DecodeAddress(t.input.words[1])
       /\ lastSave.tx.amount = DecodeUint(t.input.words[2])
       /\ lastSave.tx.from = t.from

\* The outgoing token transfer of a wallet, recorded with the token contract
\* and the foreign recipient.
C10_Witness ==
  /\ Saved
  /\ lastSave.isNew
  /\ lastSave.hash = "hS"
  /\ lastSave.tx.contractAddress = "T1"
  /\ lastSave.tx.to = "X2"
  /\ lastSave.tx.amount = <<"5">>
  /\ lastSave.tx \in store

\* The calls of processTransaction that have returned.
ReturnedCalls == {c \in AllCalls : CallAt(c).pc \notin InFlight \cup {"queued"}}

HasUnknownSelector(t) ==
  /\ ~IsEmptyInput(t.input)
  /\ MethodSignatureOf(t.input) \notin {TransferSignature, TransferFromSignature}

\* C12: a call of processTransaction for a new transaction whose selector is
\* unknown returns without a save, the store holds no record of its hash
\* when it has returned, and no record is ever created for such a
\* transaction.
C12_UnknownIsDropped ==
  /\ \A c \in AllCalls :
       (CallAt(c).isNew /\ HasUnknownSelector(RawTx(CallAt(c).hash))) =>
         /\ CallAt(c).pc = "unknown"
         /\ CallAt(c).hash \notin StoredHashes(store)
  /\ (Saved /\ lastSave.isNew) => ~HasUnknownSelector(RawTx(lastSave.hash))

\* The call for hK, a call of an unknown method by a monitored wallet, has
\* returned with the store empty, while the node has a receipt for it.
C12_Witness ==
  /\ \E c \in AllCalls :
       CallAt(c).hash = "hK" /\ CallAt(c).isNew /\ CallAt(c).pc = "unknown"
  /\ receipts["hK"] = [status |-> "0x1", logs |-> <<"Transfer">>]
  /\ store = {}
  /\ PassDone(1)

\* C13: no record is created for a transaction whose call data starts with
\* the transfer selector and has not the length of transfer(address,uint256).
C13_WrongLengthTransferIsSkipped ==
  /\ (Saved /\ lastSave.isNew
        /\ MethodSignatureOf(RawTx(lastSave.hash).input) = TransferSignature)
       => Len(RawTx(lastSave.hash).input.words) = 2
  /\ \A c \in ReturnedCalls :
       (CallAt(c).isNew /\ ~IsTransferCall(RawTx(CallAt(c).hash))
          /\ MethodSignatureOf(RawTx(CallAt(c).hash).input) = TransferSignature)
         => CallAt(c).hash \notin StoredHashes(store)

\* Call data that starts with the transferFrom selector and has the length
\* of transferFrom(address,uint256,uint256) as the decoder reads it: three
\* words.
IsTransferFromCall(t) ==
  t.input.sel = TransferFromSignature /\ Len(t.input.words) = 3

\* C14: once processTransaction has returned for a new transaction that is a
\* transferFrom call of the exact length and has a receipt, the store holds
\* an erc20 record of its hash with the decoded sender, recipient and amount
\* and the raw to as contractAddress.
C14_TransferFromRecordedAsErc20 ==
  \A c \in ReturnedCalls :
    LET t == RawTx(CallAt(c).hash)
    IN (CallAt(c).isNew /\ IsTransferFromCall(t)
          /\ receipts[CallAt(c).hash] # NoReceipt) =>
         \E r \in store :
           /\ r.hash = t.hash
           /\ r.type = ERC20_TRANSFER
           /\ r.contractAddress = t.to
           /\ r.from = DecodeAddress(t.input.words[1])
           /\ r.to = DecodeAddress(t.input.words[2])
           /\ r.amount = DecodeUint(t.input.words[3])

----------------------------------------------------------------------------
\* Properties of the service (Spec).

\* The callbacks of the sweep in flight, or of the latest sweep, that have
\* returned and been collected by the range executor.
Collected == DOMAIN sweep.finished

SweepCompleted == sweep.pc = "idle" /\ sweep.result = "completed"

\* C1: a call of processTransaction that finds a Confirmed or Failed record
\* returns at once, and no save is ever issued by a call that found one.
C1_TerminalStatusIsFinal ==
  /\ \A c \in AllCalls :
       CallAt(c).found \in TerminalStatuses => CallAt(c).pc = "terminal"
  /\ Saved => lastSave.found \notin TerminalStatuses

\* The second sweep meets the record that an earlier call confirmed, and
\* leaves it as it is.
C1_Witness ==
  /\ Len(sweep.cursors) = 1
  /\ \E c \in AllCalls :
       /\ c[1][1] = "sweep"
       /\ CallAt(c).pc = "terminal"
       /\ CallAt(c).found = TRANSACTION_STATUS_CONFIRMED
       /\ \E r \in store :
            r.hash = CallAt(c).hash /\ r.status = TRANSACTION_STATUS_CONFIRMED
                                    /\ r = lastSave.tx

C7_CursorNeverDecreases ==
  \A i, j \in DOMAIN sweep.cursors :
    i < j => sweep.cursors[i] <= sweep.cursors[j]

\* C8: the cursor a completed sweep leaves is the head it observed minus the
\* reorg margin, below that head, and the range of the next sweep starts no
\* later than that, so that it covers the last margin blocks up to that head.
C8_CursorIsHeadMinusMargin ==
  /\ \A i \in DOMAIN sweep.cursors :
       /\ sweep.cursors[i] = sweep.heads[i] - AdvanceMargin
       /\ sweep.cursors[i] < sweep.heads[i]
  /\ (sweep.pc = "range" /\ sweep.heads # <<>>) =>
       sweep.from <= sweep.heads[Len(sweep.heads)] - AdvanceMargin

\* C9: a sweep whose range has started is not given up: when it is over,
\* every block of the range has been handled, each block that was processed
\* had a call of processTransaction for each of its relevant transactions,
\* and what these calls saved or found settled is in the store.
C9_BlockFailureIsIsolated ==
  /\ sweep.result = "rejected" => sweep.finished = <<>>
  /\ SweepCompleted =>
       /\ Collected = sweep.from..sweep.currentBlock
       /\ \A b \in Collected :
            LET done == sweep.finished[b]
            IN /\ (b \in DOMAIN chain /\ done.outcome = "ok") =>
                    {done.calls[i].hash : i \in DOMAIN done.calls}
                      = {h \in HashesOf(chain[b]) : InWalletsMap(MonitoredWallets, h)}
               /\ \A i \in DOMAIN done.calls :
                    done.calls[i].pc \in {"saved", "terminal"} =>
                      \E r \in store : /\ r.hash = done.calls[i].hash
                                       /\ r.status \in TerminalStatuses

\* The sweep completed although block A could not be fetched or processed;
\* the transaction of block B, next to it, was saved.
C9_Witness ==
  /\ SweepCompleted
  /\ {BlockA, BlockB} \subseteq Collected
  /\ sweep.finished[BlockA].outcome \in {"rejected", "caught"}
  /\ sweep.finished[BlockB].outcome = "ok"
  /\ \E i \in DOMAIN sweep.finished[BlockB].calls :
       /\ sweep.finished[BlockB].calls[i].hash = "hO"
       /\ sweep.finished[BlockB].calls[i].pc = "saved"
  /\ \E r \in store : r.hash = "hO" /\ r.status \in TerminalStatuses

----------------------------------------------------------------------------
\* Properties of one sweep over a crowded block (SpecChunks).

\* The block callbacks of the sweep that have started and not returned, and
\* the calls of processTransaction of callback k that have started and not
\* returned.
BlocksInFlight == {k \in SweepTasks : tasks[k].pc # "done"}
CallsInFlight(k) == {i \in DOMAIN tasks[k].calls : tasks[k].calls[i].pc \in InFlight}

\* C15: at every moment of a sweep at most 3 blocks are being processed, and
\* within one block at most 4 transactions are inside processTransaction.
C15_BoundedConcurrency ==
  /\ Cardinality(BlocksInFlight) <= 3
  /\ \A k \in DOMAIN tasks : Cardinality(CallsInFlight(k)) <= 4

\* Both limits are reached at once: three blocks of a longer range are in
\* flight, one of them with four of its five transactions in
\* processTransaction and the fifth still waiting.
C15_Witness ==
  /\ sweep.pc = "range"
  /\ sweep.currentBlock - sweep.from + 1 > 3
  /\ Cardinality(BlocksInFlight) = 3
  /\ \E k \in BlocksInFlight :
       /\ Cardinality(CallsInFlight(k)) = 4
       /\ \E i \in DOMAIN tasks[k].calls : tasks[k].calls[i].pc = "queued"

\* How the calls of processTransaction of the blocks that are done ended:
\* those of the callbacks still listed and those the range has collected.
DoneBlockCalls ==
  {tasks[k].calls : k \in {t \in DOMAIN tasks : tasks[t].pc = "done"}}
    \cup {sweep.finished[b].calls : b \in DOMAIN sweep.finished}

\* C19: when processTransaction throws for one transaction of a block, the
\* other relevant transactions of the block are still processed and saved:
\* once the block is done every call has returned, and every call but the
\* one that threw has saved its record, which the store holds.
C19_FailedCallLeavesSiblings ==
  /\ \A calls \in DoneBlockCalls :
       \A i \in DOMAIN calls :
         /\ calls[i].pc \in {"saved", "failed"}
         /\ calls[i].pc = "saved" => calls[i].hash \in StoredHashes(store)
  /\ \A k \in DOMAIN tasks : tasks[k].pc = "done" => tasks[k].outcome \in {"ok", "null"}
  /\ Cardinality({c \in AllCalls : CallAt(c).pc = "failed"}) <= MaxFailures - budget.failures

\* The call for the second transaction of the crowded block threw; the
\* calls of its chunk and the call of the next chunk have saved.
C19_Witness ==
  \E k \in DOMAIN tasks :
    /\ tasks[k].pc = "done"
    /\ Len(tasks[k].calls) = Len(CrowdedBlock)
    /\ tasks[k].calls[2].pc = "failed"
    /\ \A i \in DOMAIN tasks[k].calls \ {2} : tasks[k].calls[i].pc = "saved"
    /\ StoredHashes(store) = HashesOf(CrowdedBlock) \ {tasks[k].calls[2].hash}

----------------------------------------------------------------------------
\* Properties of the sweep's range (Spec).

\* How many times the range of the sweep handed block b to the callback.
Submissions(b) == Cardinality({i \in DOMAIN sweep.submitted : sweep.submitted[i] = b})

\* C16: a sweep that read the cursor L and the head H hands every block b
\* with L <= b <= H to the callback exactly once, and no other block, and
\* the cursor stays at L until all of them have been handed over and have
\* returned.
C16_SweepCoversRange ==
  /\ sweep.pc = "range" =>
       /\ lastCheckingBlock = sweep.from
       /\ \A i \in DOMAIN sweep.submitted :
            /\ sweep.submitted[i] \in sweep.from..sweep.currentBlock
            /\ Submissions(sweep.submitted[i]) = 1
  /\ SweepCompleted =>
       /\ \A b \in sweep.from..sweep.currentBlock : Submissions(b) = 1
       /\ Len(sweep.submitted) = sweep.currentBlock - sweep.from + 1
       /\ Collected = sweep.from..sweep.currentBlock

\* The second sweep completed: its range started at the cursor the first
\* sweep left, took several chunks, and every block of it was handed over.
C16_Witness ==
  /\ SweepCompleted
  /\ Len(sweep.heads) = 2
  /\ sweep.from = sweep.cursors[1]
  /\ sweep.currentBlock - sweep.from + 1 > 2 * CONCURRENT_BLOCK_PROCESS_COUNT
  /\ Len(sweep.submitted) = sweep.currentBlock - sweep.from + 1

\* The calls of processTransaction of the live path and of the sweep that
\* both went past getByHash for the same hash without meeting a terminal
\* record.
RacingPairs ==
  {p \in AllCalls \X AllCalls :
     /\ p[1][1][1] = "live" /\ p[2][1][1] = "sweep"
     /\ CallAt(p[1]).hash = CallAt(p[2]).hash
     /\ CallAt(p[1]).pc \in {"receipt", "save", "saved"}
     /\ CallAt(p[2]).pc \in {"receipt", "save", "saved"}}

\* C17: when the live path and the sweep process the same hash at the same
\* time, the store never holds more than one record of the hash; once both
\* have saved it holds exactly one, both computed the same terminal status,
\* and that is the status of the record.
C17_RaceLeavesOneAgreedRecord ==
  \A p \in RacingPairs :
    LET live == CallAt(p[1])
        swept == CallAt(p[2])
    IN /\ Cardinality(RecordsOf(store, live.hash)) <= 1
       /\ (live.pc = "saved" \/ swept.pc = "saved") =>
            Cardinality(RecordsOf(store, live.hash)) = 1
       /\ (live.pc = "saved" /\ swept.pc = "saved") =>
            /\ live.tx.status = swept.tx.status
            /\ live.tx.status \in TerminalStatuses
            /\ \A r \in RecordsOf(store, live.hash) : r.status = live.tx.status

\* Both paths found the pending record of hO, both fetched the receipt and
\* both saved: one record of hO is left.
C17_Witness ==
  \E p \in RacingPairs :
    /\ CallAt(p[1]).hash = "hO"
    /\ CallAt(p[1]).pc = "saved" /\ CallAt(p[2]).pc = "saved"
    /\ CallAt(p[1]).found = TRANSACTION_STATUS_PENDING
    /\ CallAt(p[2]).found = TRANSACTION_STATUS_PENDING
    /\ Cardinality(RecordsOf(store, "hO")) = 1

\* C24: while a block of the range is in flight the cursor stays where it
\* was when the range was computed; the only step of a running range that
\* moves it is the one that completes the sweep, after every block of the
\* range has returned; and a step that ends the sweep with an error leaves
\* the cursor as it is.
C24_CursorAdvancesOnlyAtCompletion ==
  /\ [](sweep.pc = "range" => lastCheckingBlock = sweep.from)
  /\ [][((sweep.pc = "range" /\ lastCheckingBlock' # lastCheckingBlock) =>
           (/\ \A k \in SweepTasks : tasks[k].pc = "done"
            /\ sweep'.result = "completed"
            /\ DOMAIN sweep'.finished = sweep.from..sweep.currentBlock))
        /\ ((sweep.result = "running" /\ sweep'.result = "rejected") =>
              lastCheckingBlock' = lastCheckingBlock)]_vars

\* The first sweep restored the cursor from the configuration, then the
\* query for the head failed: the sweep ended with the error and the cursor
\* is where the restore left it.
C24_Witness ==
  /\ sweep.pc = "idle" /\ sweep.result = "rejected"
  /\ sweep.heads = <<>>
  /\ startBlock > 0
  /\ lastCheckingBlock = startBlock

----------------------------------------------------------------------------
\* Properties of the connection (SpecConn).

\* The n-th close event has been answered: a provider was created after it,
\* its connection carries a close handler, and it has the subscription.
Reconnected(n) ==
  /\ conn.provider > n
  /\ conn.onclose # "none"
  /\ conn.provider \in conn.subscribed

\* C18: over a websocket every close is eventually followed by a new
\* provider with a close handler and a newBlockHeaders subscription, however
\* many closes came before, and every call of onWsClose comes after the
\* wait of reconnectTimeout.
C18_ReconnectsAfterBackoff ==
  /\ [](\A i \in DOMAIN conn.attempts : conn.attempts[i])
  /\ \A n \in 1..MaxCloses :
       (conn.type = "ws" /\ conn.closes = n) ~> Reconnected(n)

\* C20: with a connection type outside ipc, ws and http the constructor
\* throws before any subscription and before the sweep timer: nothing is
\* subscribed, the timer is not armed, and no block is ever processed.
C20_UnknownTypeIsFatal ==
  conn.type \notin {"ipc", "ws", "http"} =>
    /\ conn.pc \in {"constructor", "failed"}
    /\ conn.subscribed = {} /\ conn.provider = 0
    /\ ~conn.timer
    /\ sweep = Idle /\ tasks = <<>> /\ store = {} /\ lastSave = NoSave

\* The constructor was called with an unknown type and threw.
C20_Witness == conn.type = "other" /\ conn.pc = "failed"

\* C21: with connection type http no newBlockHeaders subscription is ever
\* made, once the constructor has run the sweep timer is armed whenever no
\* sweep runs, no block callback comes from a header, and every save is
\* made by a sweep.
C21_HttpHasNoLivePath ==
  conn.type = "http" =>
    /\ conn.subscribed = {}
    /\ conn.pc = "up" => (conn.timer \/ sweep.pc # "idle")
    /\ \A k \in DOMAIN tasks : k[1] = "sweep"
    /\ Saved => lastSave.by = "sweep"
    /\ store # {} => Saved

\* Over http the sweep has run and saved a record.
C21_Witness ==
  /\ conn.type = "http" /\ conn.pc = "up" /\ conn.timer
  /\ SweepCompleted
  /\ Saved /\ lastSave.by = "sweep"
  /\ lastSave.tx \in store

----------------------------------------------------------------------------
\* Properties of the cursor (SpecCursor).

\* C22: lastCheckingBlock is never negative, whatever the head and the
\* highest stored block number.
C22_CursorNeverNegative == lastCheckingBlock >= 0

\* The highest block number of the records of the store.
HighestStored ==
  CHOOSE n \in {r.blockNumber : r \in store} :
    \A r \in store : r.blockNumber <= n

\* C23: the range of the first sweep starts at the highest stored block
\* number minus the safety margin when the store holds records, and at the
\* configured start block only when it holds none.
C23_CursorInitialisation ==
  (sweep.pc = "range" /\ budget.sweeps = MaxSweeps - 1) =>
    sweep.from = IF store # {} THEN HighestStored - InitMargin ELSE startBlock

----------------------------------------------------------------------------
\* Properties of the sweep loop (SpecLoop).

\* C25: the timer is armed whenever no sweep runs, and after a sweep has
\* ended, completed or with an error, another sweep starts.
C25_SweepsKeepBeingScheduled ==
  /\ [](sweep.pc = "idle" => conn.timer)
  /\ (sweep.pc = "idle" /\ sweep.result = "completed") ~> (sweep.result = "running")
  /\ (sweep.pc = "idle" /\ sweep.result = "rejected") ~> (sweep.result = "running")

\* A sweep was rejected because a call of it failed before any sweep had
\* completed, and the next sweep is running.
C25_Witness ==
  /\ sweep.result = "running"
  /\ sweep.pc \in {"find", "getBlockNumber"}
  /\ sweep.heads = <<>>
  /\ budget.failures < MaxFailures

\* C26: a block whose handling failed in a sweep is in the range of a later
\* sweep and is handled again.
C26_FailedBlocksAreRetried ==
  \A n \in 0..LoopHead : (n \in sweep.owed) ~> (n \notin sweep.owed)

\* The block and the receipt of hash h are there, and the store holds h as
\* pending.
PendingAndMined(h) ==
  /\ \E r \in store : r.hash = h /\ r.status = TRANSACTION_STATUS_PENDING
  /\ \E n \in DOMAIN chain : n <= head /\ h \in HashesOf(chain[n])
  /\ receipts[h] # NoReceipt

\* C27: a pending record whose transaction is in a block and has a receipt
\* is eventually saved as confirmed or failed by a sweep.
C27_PendingEventuallyResolves ==
  \A h \in Hashes :
    PendingAndMined(h) ~>
      (\E r \in store : r.hash = h /\ r.status \in TerminalStatuses)

----------------------------------------------------------------------------
\* Further properties of the service (Spec) and of the reconciler on one
\* block (SpecBlock).

\* C28: a failure while the block of a header is fetched or processed is
\* handled inside the service: no callback of the live path ends with an
\* error that nobody handles.
C28_LiveFailuresAreContained ==
  \A k \in DOMAIN tasks : k[1] = "live" => tasks[k].outcome # "unhandled"

\* C29: every record the reconciler saves carries a contractAddress if and
\* only if its type is erc20_transfer.
C29_ContractAddressMatchesType ==
  Saved => (lastSave.tx.contractAddress # Undefined
              <=> lastSave.tx.type = ERC20_TRANSFER)

\* C30: the record saved for a hash that was found pending in the store is
\* the pending record with another status, timestamp and blockNumber: hash,
\* type, from, to, amount, contractAddress and details are as they were.
C30_PendingKeepsItsFields ==
  (Saved /\ ~lastSave.isNew) =>
    LET before == ExternalRecord(lastSave.hash, TRANSACTION_STATUS_PENDING)
    IN /\ lastSave.found = TRANSACTION_STATUS_PENDING
       /\ lastSave.tx = [before EXCEPT !.status = lastSave.tx.status,
                                       !.timestamp = lastSave.tx.timestamp,
                                       !.blockNumber = lastSave.tx.blockNumber]
       /\ lastSave.tx.status \in TerminalStatuses
       /\ lastSave.tx.blockNumber = lastSave.block

\* The pending record of hE was reconciled: the block shows X1 as the sender
\* and the decoded recipient W2, the record keeps the sender and recipient
\* it had.
C30_Witness ==
  /\ Saved /\ ~lastSave.isNew
  /\ lastSave.hash = "hE"
  /\ lastSave.tx \in store
  /\ lastSave.tx.status = TRANSACTION_STATUS_CONFIRMED
  /\ lastSave.tx.from # EthTx("hE").from
  /\ lastSave.tx.to # EthTx("hE").to
  /\ lastSave.tx.blockNumber = PassBlock

----------------------------------------------------------------------------
\* Further properties of the sweep loop (SpecLoop) and of the cursor
\* (SpecCursor).

\* C31: the timer of the next sweep is armed only when no sweep is in
\* flight, a sweep starts only by that timer firing, which spends it, and
\* only a sweep in flight writes lastCheckingBlock: two sweeps never overlap.
C31_SweepsNeverOverlap ==
  /\ [](conn.timer => (sweep.pc = "idle" /\ SweepTasks = {}))
  /\ [][/\ (sweep'.result = "running" /\ sweep' # sweep /\ sweep.pc = "idle")
             => (conn.timer /\ ~conn.timer')
        /\ (sweep.pc # "idle" /\ sweep'.pc # "idle")
             => (sweep'.heads = sweep.heads /\ ~conn.timer')
        /\ (lastCheckingBlock' # lastCheckingBlock)
             => (sweep.pc # "idle" /\ ~conn.timer)]_vars

\* A sweep has completed and the next one is in its range, the timer spent.
C31_Witness ==
  /\ sweep.pc = "range" /\ sweep.heads # <<>>
  /\ SweepTasks # {}
  /\ ~conn.timer

\* C32: when two sweeps in a row have completed and the head the later one
\* saw is not below the head the earlier one saw, the range of the later
\* one starts no later than the block after the last block of the earlier
\* range: no block between the two ranges is left out.
C32_NoGapsBetweenSweeps ==
  (SweepCompleted /\ Len(sweep.heads) >= 2) =>
    LET earlier == sweep.heads[Len(sweep.heads) - 1]
        later == sweep.heads[Len(sweep.heads)]
    IN earlier <= later => sweep.from <= earlier + 1

====
